---- MODULE Spec2Model ----
(***************************************************************************)
(* Model of hirzel::Plugin (include/hirzel/plugin.h), POSIX branch: a      *)
(* wrapper that opens a shared object with dlopen, resolves symbols with   *)
(* dlsym into a name -> address map, calls them through execute<T>, and     *)
(* keeps one error slot.                                                    *)
(*                                                                         *)
(* The object's fields are the variables _lib, _bound, _error, _filepath,  *)
(* _functions.  The OS loader is modelled by the operators dlopen, dlsym   *)
(* and the diagnostics dlerror hands out after a failure.  A const char*   *)
(* held in _error is modelled by the message it pointed to when it was     *)
(* stored.  History variables (opened, closed, resolved, last, failed,     *)
(* loadfailed, lastfail, lastpath) record the calls made on the object and *)
(* the loader calls it made; they do not influence the object.  A second   *)
(* object, copy, is a Plugin made from the first by the implicitly         *)
(* generated copy operations.                                              *)
(***************************************************************************)
EXTENDS Integers, Sequences, FiniteSets, TLC

VARIABLES _lib, _bound, _error, _filepath, _functions,
          phase, opened, closed, resolved, nops, last,
          failed, loadfailed, lastfail, lastpath,
          copy, copy_phase, copy_closed

vars == <<_lib, _bound, _error, _filepath, _functions,
          phase, opened, closed, resolved, nops, last,
          failed, loadfailed, lastfail, lastpath,
          copy, copy_phase, copy_closed>>

----------------------------------------------------------------------------
(* Bounds of the exploration *)

\* member-function calls made on one Plugin between construction and destruction
MaxOps == 4
\* length of the funcnames list handed to the two-argument constructor
MaxBatch == 3

----------------------------------------------------------------------------
(* The environment: files, images and their exported symbols *)

\* nullptr
Null == 0

\* paths a caller passes; "missing.so" and "broken.so" cannot be opened
Paths == {"liba.so", "libb.so", "missing.so", "broken.so"}
Loadable == {"liba.so", "libb.so"}

\* symbol names a caller asks for
Names == {"add", "sub", "mul"}

\* the handle dlopen returns for a loadable path
HandleOf == [p \in Loadable |-> IF p = "liba.so" THEN 1 ELSE 2]

\* exported symbols of each image: name -> address (never Null)
Exports == [h \in {1, 2} |->
              IF h = 1 THEN ("add" :> 11) @@ ("sub" :> 12)
                       ELSE ("add" :> 21)]

dlopen(filepath) == IF filepath \in Loadable THEN HandleOf[filepath] ELSE Null

dlsym(lib, funcname) ==
    IF lib \in DOMAIN Exports /\ funcname \in DOMAIN Exports[lib]
    THEN Exports[lib][funcname] ELSE Null

\* what dlerror() returns after the failed dlopen / dlsym
DlopenError(filepath) == <<"dlopen", filepath>>
DlsymError(funcname) == <<"dlsym", funcname>>

\* the three string literals of the class, and the initial nullptr
NoError == <<"null", "">>
ErrAlreadyBound == <<"lit", "a library is already bound! overwriting is not allowed.">>
ErrLibNotBound == <<"lit", "lib has not been bound! cannot continue with binding function!">>
ErrNotBound == <<"lit", "attempted to execute function that is not bound!">>

\* T() of execute<T>, and the value the function at address func returns
DefaultT == 0
CallResult(func) == 100 + func

\* the empty unordered_map
EmptyMap == [n \in {} |-> Null]

----------------------------------------------------------------------------
(* The member functions, as functions of the object w.  Besides the fields, *)
(* w carries the loader calls made so far in the current operation         *)
(* (dlopened, dlsymmed, called) and the value returned (ret).              *)

\* variant: no already-bound guard
bind_library_noguard(w, filepath) ==
    LET h == dlopen(filepath) IN
    IF h = Null
    THEN [w EXCEPT !.filepath = filepath, !.lib = Null,
                   !.dlopened = Append(@, filepath),
                   !.error = DlopenError(filepath), !.bound = FALSE]
    ELSE [w EXCEPT !.filepath = filepath, !.lib = h,
                   !.dlopened = Append(@, filepath),
                   !.opened = Append(@, h), !.bound = TRUE]

\* variant: a successful open resets the error slot
bind_library_clears(w, filepath) ==
    IF w.lib # Null
    THEN [w EXCEPT !.error = ErrAlreadyBound]
    ELSE LET h == dlopen(filepath) IN
         IF h = Null
         THEN [w EXCEPT !.filepath = filepath, !.lib = Null,
                        !.dlopened = Append(@, filepath),
                        !.error = DlopenError(filepath), !.bound = FALSE]
         ELSE [w EXCEPT !.filepath = filepath, !.lib = h,
                        !.dlopened = Append(@, filepath),
                        !.opened = Append(@, h), !.bound = TRUE,
                        !.error = NoError]

\* variant: a failed open does not record the diagnostic
bind_library_silent(w, filepath) ==
    IF w.lib # Null
    THEN [w EXCEPT !.error = ErrAlreadyBound]
    ELSE LET h == dlopen(filepath) IN
         IF h = Null
         THEN [w EXCEPT !.filepath = filepath, !.lib = Null,
                        !.dlopened = Append(@, filepath), !.bound = FALSE]
         ELSE [w EXCEPT !.filepath = filepath, !.lib = h,
                        !.dlopened = Append(@, filepath),
                        !.opened = Append(@, h), !.bound = TRUE]

\* variant: _bound is set on both branches
bind_library_boundanyway(w, filepath) ==
    IF w.lib # Null
    THEN [w EXCEPT !.error = ErrAlreadyBound]
    ELSE LET h == dlopen(filepath) IN
         IF h = Null
         THEN [w EXCEPT !.filepath = filepath, !.lib = Null,
                        !.dlopened = Append(@, filepath),
                        !.error = DlopenError(filepath), !.bound = TRUE]
         ELSE [w EXCEPT !.filepath = filepath, !.lib = h,
                        !.dlopened = Append(@, filepath),
                        !.opened = Append(@, h), !.bound = TRUE]

\* variant: a Plugin that attempted a load refuses every later one
bind_library_once(w, filepath) ==
    IF w.lib # Null \/ w.filepath # ""
    THEN [w EXCEPT !.error = ErrAlreadyBound]
    ELSE LET h == dlopen(filepath) IN
         IF h = Null
         THEN [w EXCEPT !.filepath = filepath, !.lib = Null,
                        !.dlopened = Append(@, filepath),
                        !.error = DlopenError(filepath), !.bound = FALSE]
         ELSE [w EXCEPT !.filepath = filepath, !.lib = h,
                        !.dlopened = Append(@, filepath),
                        !.opened = Append(@, h), !.bound = TRUE]

\* variant: the path is recorded only when the open succeeds
bind_library_pathonsuccess(w, filepath) ==
    IF w.lib # Null
    THEN [w EXCEPT !.error = ErrAlreadyBound]
    ELSE LET h == dlopen(filepath) IN
         IF h = Null
         THEN [w EXCEPT !.lib = Null,
                        !.dlopened = Append(@, filepath),
                        !.error = DlopenError(filepath), !.bound = FALSE]
         ELSE [w EXCEPT !.filepath = filepath, !.lib = h,
                        !.dlopened = Append(@, filepath),
                        !.opened = Append(@, h), !.bound = TRUE]

\* void Plugin::bind_library(const std::string& filepath)
bind_library(w, filepath) ==
    IF w.lib # Null
    THEN [w EXCEPT !.error = ErrAlreadyBound]
    ELSE LET h == dlopen(filepath) IN
         IF h = Null
         THEN [w EXCEPT !.filepath = filepath, !.lib = Null,
                        !.dlopened = Append(@, filepath),
                        !.error = DlopenError(filepath), !.bound = FALSE]
         ELSE [w EXCEPT !.filepath = filepath, !.lib = h,
                        !.dlopened = Append(@, filepath),
                        !.opened = Append(@, h), !.bound = TRUE]

\* _functions[funcname] = func
MapPut(functions, funcname, func) ==
    [n \in DOMAIN functions \cup {funcname} |->
        IF n = funcname THEN func ELSE functions[n]]

\* _functions[funcname] read through operator[]: an absent key is inserted
\* with a value-initialised (null) pointer
MapIndex(functions, funcname) ==
    IF funcname \in DOMAIN functions THEN functions
    ELSE MapPut(functions, funcname, Null)

\* variant: no guard against an unloaded library
bind_function_noguard(w, funcname) ==
    LET func == dlsym(w.lib, funcname) IN
    IF func = Null
    THEN [w EXCEPT !.dlsymmed = Append(@, funcname),
                   !.error = DlsymError(funcname), !.bound = FALSE,
                   !.ret = Null]
    ELSE [w EXCEPT !.dlsymmed = Append(@, funcname),
                   !.functions = MapPut(@, funcname, func),
                   !.resolved = @ \cup {funcname}, !.ret = func]

\* variant: a failed lookup leaves _bound alone
bind_function_keepbound(w, funcname) ==
    IF w.lib = Null
    THEN [w EXCEPT !.error = ErrLibNotBound, !.ret = Null]
    ELSE LET func == dlsym(w.lib, funcname) IN
         IF func = Null
         THEN [w EXCEPT !.dlsymmed = Append(@, funcname),
                        !.error = DlsymError(funcname), !.ret = Null]
         ELSE [w EXCEPT !.dlsymmed = Append(@, funcname),
                        !.functions = MapPut(@, funcname, func),
                        !.resolved = @ \cup {funcname}, !.ret = func]

\* variant: a successful lookup marks the plugin bound again
bind_function_rebound(w, funcname) ==
    IF w.lib = Null
    THEN [w EXCEPT !.error = ErrLibNotBound, !.ret = Null]
    ELSE LET func == dlsym(w.lib, funcname) IN
         IF func = Null
         THEN [w EXCEPT !.dlsymmed = Append(@, funcname),
                        !.error = DlsymError(funcname), !.bound = FALSE,
                        !.ret = Null]
         ELSE [w EXCEPT !.dlsymmed = Append(@, funcname),
                        !.functions = MapPut(@, funcname, func),
                        !.resolved = @ \cup {funcname}, !.bound = TRUE,
                        !.ret = func]

\* variant: a failed lookup drops the symbols cached so far
bind_function_rollback(w, funcname) ==
    IF w.lib = Null
    THEN [w EXCEPT !.error = ErrLibNotBound, !.ret = Null]
    ELSE LET func == dlsym(w.lib, funcname) IN
         IF func = Null
         THEN [w EXCEPT !.dlsymmed = Append(@, funcname),
                        !.error = DlsymError(funcname), !.bound = FALSE,
                        !.functions = EmptyMap, !.ret = Null]
         ELSE [w EXCEPT !.dlsymmed = Append(@, funcname),
                        !.functions = MapPut(@, funcname, func),
                        !.resolved = @ \cup {funcname}, !.ret = func]

\* Function Plugin::bind_function(const std::string& funcname)
bind_function(w, funcname) ==
    IF w.lib = Null
    THEN [w EXCEPT !.error = ErrLibNotBound, !.ret = Null]
    ELSE LET func == dlsym(w.lib, funcname) IN
         IF func = Null
         THEN [w EXCEPT !.dlsymmed = Append(@, funcname),
                        !.error = DlsymError(funcname), !.bound = FALSE,
                        !.ret = Null]
         ELSE [w EXCEPT !.dlsymmed = Append(@, funcname),
                        !.functions = MapPut(@, funcname, func),
                        !.resolved = @ \cup {funcname}, !.ret = func]

\* variant: the loop stops at the first name that fails to resolve
RECURSIVE bind_each_failfast(_, _)
bind_each_failfast(w, funcnames) ==
    IF funcnames = <<>> THEN w
    ELSE LET w1 == bind_function(w, Head(funcnames)) IN
         IF w1.ret = Null THEN w1
         ELSE bind_each_failfast(w1, Tail(funcnames))

\* for(const std::string& s : funcnames) bind_function(s);
RECURSIVE bind_each(_, _)
bind_each(w, funcnames) ==
    IF funcnames = <<>> THEN w
    ELSE bind_each(bind_function(w, Head(funcnames)), Tail(funcnames))

\* variant: fail-fast batch
Plugin_ctor_failfast(w, filepath, funcnames) ==
    LET w1 == bind_library(w, filepath) IN
    IF w1.lib # Null THEN [bind_each_failfast(w1, funcnames) EXCEPT !.ret = 0]
    ELSE w1

\* Plugin::Plugin(const std::string& filepath,
\*                const std::vector<std::string>& funcnames)
Plugin_ctor(w, filepath, funcnames) ==
    LET w1 == bind_library(w, filepath) IN
    IF w1.lib # Null THEN [bind_each(w1, funcnames) EXCEPT !.ret = 0]
    ELSE w1

\* variant: the destructor closes without testing _lib
Plugin_dtor_unguarded(w) == [w EXCEPT !.closed = Append(@, w.lib)]

\* Plugin::~Plugin()
Plugin_dtor(w) ==
    IF w.lib # Null THEN [w EXCEPT !.closed = Append(@, w.lib)] ELSE w

\* variant: the guard tests presence in the map instead of the pointer
execute_bypresence(w, funcname) ==
    LET fs == MapIndex(w.functions, funcname)
        func == fs[funcname]
    IN  IF funcname \notin DOMAIN fs
        THEN [w EXCEPT !.functions = fs, !.error = ErrNotBound, !.ret = DefaultT]
        ELSE [w EXCEPT !.functions = fs, !.called = Append(@, func),
                       !.ret = IF func = Null THEN DefaultT ELSE CallResult(func)]

\* template <typename T, typename ...Args> T execute(funcname, args...)
execute(w, funcname) ==
    LET fs == MapIndex(w.functions, funcname)
        func == fs[funcname]
    IN  IF func = Null
        THEN [w EXCEPT !.functions = fs, !.error = ErrNotBound, !.ret = DefaultT]
        ELSE [w EXCEPT !.functions = fs, !.called = Append(@, func),
                       !.ret = CallResult(func)]

\* inline Function get_func(const std::string& funcname)
get_func(w, funcname) ==
    LET fs == MapIndex(w.functions, funcname)
    IN  [w EXCEPT !.functions = fs, !.ret = fs[funcname]]

\* the const accessors
is_lib_bound == _lib # Null
is_func_bound(funcname) == funcname \in DOMAIN _functions
bound == _bound
filepath == _filepath
error == _error

----------------------------------------------------------------------------
(* The state machine: one Plugin object from construction to destruction   *)

\* the fields of the object before an operation
Fields == [lib |-> _lib, bound |-> _bound, error |-> _error,
           filepath |-> _filepath, functions |-> _functions,
           resolved |-> resolved]

\* the object at the start of an operation
Self == [lib |-> _lib, bound |-> _bound, error |-> _error,
         filepath |-> _filepath, functions |-> _functions,
         opened |-> opened, closed |-> closed, resolved |-> resolved,
         dlopened |-> <<>>, dlsymmed |-> <<>>, called |-> <<>>, ret |-> 0]

\* indices of the batch list whose name the loaded image does not export
FailingAt(lib, names) == {i \in 1..Len(names) : dlsym(lib, names[i]) = Null}
Least(S) == CHOOSE i \in S : \A j \in S : i <= j
Greatest(S) == CHOOSE i \in S : \A j \in S : j <= i

\* the message of the most recent failing call inside one operation, given
\* the fields before it; NoError when no call of the operation fails
FailureOf(op, arg, names, pre) ==
    CASE op = "bind_library" ->
             IF pre.lib # Null THEN ErrAlreadyBound
             ELSE IF dlopen(arg) = Null THEN DlopenError(arg) ELSE NoError
      [] op = "bind_function" ->
             IF pre.lib = Null THEN ErrLibNotBound
             ELSE IF dlsym(pre.lib, arg) = Null THEN DlsymError(arg) ELSE NoError
      [] op = "execute" ->
             IF arg \in pre.resolved THEN NoError ELSE ErrNotBound
      [] op = "Plugin" ->
             IF dlopen(arg) = Null THEN DlopenError(arg)
             ELSE IF FailingAt(dlopen(arg), names) # {}
                  THEN DlsymError(names[Greatest(FailingAt(dlopen(arg), names))])
                  ELSE NoError
      [] OTHER -> NoError

\* the history of the calls made on the object
Record(w, op, arg, names) ==
    /\ failed' = failed \cup {w.dlsymmed[i] : i \in
                     {j \in 1..Len(w.dlsymmed) : dlsym(w.lib, w.dlsymmed[j]) = Null}}
    /\ loadfailed' = (loadfailed \/ \E i \in 1..Len(w.dlopened) :
                                        dlopen(w.dlopened[i]) = Null)
    /\ lastfail' = IF FailureOf(op, arg, names, Fields) # NoError
                   THEN FailureOf(op, arg, names, Fields) ELSE lastfail
    /\ lastpath' = IF op \in {"bind_library", "Plugin"} /\ _lib = Null
                   THEN arg ELSE lastpath

\* the object after an operation becomes the state; last records the call
Commit(w, op, arg, names) ==
    /\ Record(w, op, arg, names)
    /\ UNCHANGED <<copy, copy_phase, copy_closed>>
    /\ _lib' = w.lib
    /\ _bound' = w.bound
    /\ _error' = w.error
    /\ _filepath' = w.filepath
    /\ _functions' = w.functions
    /\ opened' = w.opened
    /\ closed' = w.closed
    /\ resolved' = w.resolved
    /\ last' = [op |-> op, arg |-> arg, names |-> names, ret |-> w.ret,
                dlopened |-> w.dlopened, dlsymmed |-> w.dlsymmed,
                called |-> w.called, pre |-> Fields]

\* the funcnames lists a caller may pass
Batches == UNION {[1..k -> Names] : k \in 0..MaxBatch}

Init ==
    /\ _lib = Null
    /\ _bound = FALSE
    /\ _error = NoError
    /\ _filepath = ""
    /\ _functions = EmptyMap
    /\ phase = "raw"
    /\ opened = <<>>
    /\ closed = <<>>
    /\ resolved = {}
    /\ nops = 0
    /\ failed = {}
    /\ loadfailed = FALSE
    /\ lastfail = NoError
    /\ lastpath = ""
    /\ copy = [lib |-> Null, bound |-> FALSE, error |-> NoError,
               filepath |-> "", functions |-> EmptyMap]
    /\ copy_phase = "raw"
    /\ copy_closed = <<>>
    /\ last = [op |-> "none", arg |-> "", names |-> <<>>, ret |-> 0,
               dlopened |-> <<>>, dlsymmed |-> <<>>, called |-> <<>>,
               pre |-> [lib |-> Null, bound |-> FALSE, error |-> NoError,
                        filepath |-> "", functions |-> EmptyMap,
                        resolved |-> {}]]

\* Plugin() = default
DefaultConstruct ==
    /\ phase = "raw"
    /\ phase' = "alive"
    /\ Commit(Self, "Plugin()", "", <<>>)
    /\ UNCHANGED nops

\* Plugin(filepath, funcnames)
BatchConstruct ==
    /\ phase = "raw"
    /\ \E p \in Paths, ns \in Batches :
          Commit(Plugin_ctor(Self, p, ns), "Plugin", p, ns)
    /\ phase' = "alive"
    /\ UNCHANGED nops

BindLibrary ==
    /\ phase = "alive" /\ nops < MaxOps
    /\ \E p \in Paths : Commit(bind_library(Self, p), "bind_library", p, <<>>)
    /\ nops' = nops + 1
    /\ UNCHANGED phase

BindFunction ==
    /\ phase = "alive" /\ nops < MaxOps
    /\ \E n \in Names : Commit(bind_function(Self, n), "bind_function", n, <<>>)
    /\ nops' = nops + 1
    /\ UNCHANGED phase

Execute ==
    /\ phase = "alive" /\ nops < MaxOps
    /\ \E n \in Names : Commit(execute(Self, n), "execute", n, <<>>)
    /\ nops' = nops + 1
    /\ UNCHANGED phase

GetFunc ==
    /\ phase = "alive" /\ nops < MaxOps
    /\ \E n \in Names : Commit(get_func(Self, n), "get_func", n, <<>>)
    /\ nops' = nops + 1
    /\ UNCHANGED phase

Destroy ==
    /\ phase = "alive"
    /\ Commit(Plugin_dtor(Self), "~Plugin", "", <<>>)
    /\ phase' = "dead"
    /\ UNCHANGED nops

\* the values the implicitly generated copy operations copy, member by member
Members == [lib |-> _lib, bound |-> _bound, error |-> _error,
            filepath |-> _filepath, functions |-> _functions]

\* Plugin(const Plugin&), implicitly generated: copy is made from the object
CopyConstruct ==
    /\ phase = "alive" /\ copy_phase = "raw"
    /\ copy' = Members
    /\ copy_phase' = "alive"
    /\ UNCHANGED <<_lib, _bound, _error, _filepath, _functions, phase, opened,
                   closed, resolved, nops, last, failed, loadfailed, lastfail,
                   lastpath, copy_closed>>

\* Plugin& operator=(const Plugin&), implicitly generated: copy = object
CopyAssign ==
    /\ phase = "alive" /\ copy_phase = "alive"
    /\ copy # Members
    /\ copy' = Members
    /\ UNCHANGED <<_lib, _bound, _error, _filepath, _functions, phase, opened,
                   closed, resolved, nops, last, failed, loadfailed, lastfail,
                   lastpath, copy_phase, copy_closed>>

\* ~Plugin() of copy
DestroyCopy ==
    /\ copy_phase = "alive"
    /\ copy_closed' = Plugin_dtor([lib |-> copy.lib, closed |-> copy_closed]).closed
    /\ copy_phase' = "dead"
    /\ UNCHANGED <<_lib, _bound, _error, _filepath, _functions, phase, opened,
                   closed, resolved, nops, last, failed, loadfailed, lastfail,
                   lastpath, copy>>

Next ==
    \/ DefaultConstruct
    \/ BatchConstruct
    \/ BindLibrary
    \/ BindFunction
    \/ Execute
    \/ GetFunc
    \/ Destroy
    \/ CopyConstruct
    \/ CopyAssign
    \/ DestroyCopy

Spec == Init /\ [][Next]_vars

----------------------------------------------------------------------------
(* Helpers for the properties *)

\* the operation that produced the current state
LastIs(op) == last.op = op

\* a batch construction that opened the library and had a name fail
BatchWithFailure ==
    /\ LastIs("Plugin")
    /\ _lib # Null
    /\ FailingAt(_lib, last.names) # {}

----------------------------------------------------------------------------
(* C1: bind_library on a Plugin that already holds a handle does not call  *)
(* the OS loader and leaves the handle, filepath(), the symbols map and    *)
(* bound() as they were; only the error slot changes, to the already-bound *)
(* message.                                                                *)
C1_RejectedLoadKeepsState ==
    (LastIs("bind_library") /\ last.pre.lib # Null) =>
        /\ last.dlopened = <<>>
        /\ _lib = last.pre.lib
        /\ filepath = last.pre.filepath
        /\ _functions = last.pre.functions
        /\ bound = last.pre.bound
        /\ error = ErrAlreadyBound

C1_Witness ==
    /\ LastIs("bind_library")
    /\ last.pre.lib # Null
    /\ last.arg # last.pre.filepath
    /\ last.pre.resolved # {}
    /\ error = ErrAlreadyBound

(* C2 as stated: in a batch load where the library opens and a name fails, *)
(* no name after the first failing name is looked up or added to the map.  *)
C2_FailFast ==
    BatchWithFailure =>
        LET i == Least(FailingAt(_lib, last.names)) IN
        /\ last.dlsymmed = SubSeq(last.names, 1, i)
        /\ DOMAIN _functions = {last.names[j] : j \in 1..(i - 1)}

(* C2 amended: in a batch load where the library opens and a name fails,   *)
(* resolution is still attempted for every name of the list, in list       *)
(* order: the names after the first failing name are looked up too, and    *)
(* each one the image exports is added to the symbols map.                 *)
C2_BatchResolvesEveryName ==
    BatchWithFailure =>
        /\ last.dlsymmed = last.names
        /\ DOMAIN _functions =
             {last.names[j] : j \in (1..Len(last.names)) \ FailingAt(_lib, last.names)}
        /\ \A n \in DOMAIN _functions : _functions[n] = dlsym(_lib, n)

C2_Witness ==
    /\ BatchWithFailure
    /\ LET i == Least(FailingAt(_lib, last.names)) IN
       \E j \in (i + 1)..Len(last.names) :
           /\ last.names[j] \notin {last.names[k] : k \in 1..i}
           /\ is_func_bound(last.names[j])

(* C3 as stated: after a batch load with a failing name, bound() is false, *)
(* error() is the diagnostic of the first failing name, and the names      *)
(* resolved before it are still reported by is_func_bound.                 *)
C3_FirstFailureReported ==
    BatchWithFailure =>
        LET i == Least(FailingAt(_lib, last.names)) IN
        /\ ~bound
        /\ error = DlsymError(last.names[i])
        /\ \A j \in 1..(i - 1) : is_func_bound(last.names[j])

(* C3 amended: after a batch load with a failing name, bound() is false,   *)
(* error() is the diagnostic of the LAST failing name of the list, and the *)
(* names resolved before the first failure are still reported by           *)
(* is_func_bound.                                                          *)
C3_LastFailureReported ==
    BatchWithFailure =>
        LET i == Least(FailingAt(_lib, last.names))
            k == Greatest(FailingAt(_lib, last.names)) IN
        /\ ~bound
        /\ error = DlsymError(last.names[k])
        /\ \A j \in 1..(i - 1) : is_func_bound(last.names[j])

C3_Witness ==
    /\ BatchWithFailure
    /\ LET i == Least(FailingAt(_lib, last.names))
           k == Greatest(FailingAt(_lib, last.names)) IN
       /\ last.names[i] # last.names[k]
       /\ i > 1
       /\ error = DlsymError(last.names[k])

(* C4: execute on a name no bind_function call ever resolved calls through *)
(* no address, sets the error slot to the not-bound message and returns    *)
(* T(), also when execute or get_func was called on that name before; on a *)
(* resolved name it calls exactly the stored address and returns its       *)
(* result.                                                                 *)
C4_ExecuteGuarded ==
    LastIs("execute") =>
        IF last.arg \notin resolved
        THEN /\ last.called = <<>>
             /\ error = ErrNotBound
             /\ last.ret = DefaultT
        ELSE /\ last.called = <<last.pre.functions[last.arg]>>
             /\ last.pre.functions[last.arg] = dlsym(_lib, last.arg)
             /\ last.ret = CallResult(last.pre.functions[last.arg])

C4_Witness ==
    /\ LastIs("execute")
    /\ last.arg \notin resolved
    /\ last.arg \in DOMAIN last.pre.functions
    /\ resolved # {}
    /\ last.called = <<>>

(* C5: a destroyed Plugin on which no load succeeded made no close call; a *)
(* destroyed Plugin on which a load succeeded made one successful open and *)
(* exactly one close call, on the handle that open returned.  No close is  *)
(* made before destruction.                                                *)
C5_OpenCloseBalance ==
    /\ phase # "dead" => closed = <<>>
    /\ phase = "dead" =>
          IF opened = <<>> THEN closed = <<>>
          ELSE Len(opened) = 1 /\ closed = opened
    /\ Len(opened) <= 1

C5_Witness ==
    /\ phase = "dead"
    /\ Len(opened) = 1
    /\ closed = opened
    /\ _filepath # last.pre.filepath \/ nops >= 2

(* C6 as stated: bind_library on a Plugin without a handle, when the       *)
(* loader opens the file, leaves is_lib_bound() true and error() empty.    *)
C6_LoadLeavesErrorEmpty ==
    (LastIs("bind_library") /\ last.pre.lib = Null /\ dlopen(last.arg) # Null) =>
        /\ is_lib_bound
        /\ error = NoError

(* C6 amended: bind_library on a Plugin without a handle, when the loader  *)
(* opens the file, leaves is_lib_bound() true and error() as it was before *)
(* the call: empty only if no earlier operation on the Plugin failed.      *)
C6_LoadLeavesErrorAlone ==
    (LastIs("bind_library") /\ last.pre.lib = Null /\ dlopen(last.arg) # Null) =>
        /\ is_lib_bound
        /\ _lib = dlopen(last.arg)
        /\ error = last.pre.error

C6_Witness ==
    /\ LastIs("bind_library")
    /\ last.pre.lib = Null
    /\ is_lib_bound
    /\ last.pre.error # NoError
    /\ error = last.pre.error

(* C7: bind_library on a Plugin without a handle, when the loader fails to  *)
(* open the file, leaves is_lib_bound() false, bound() false, error() set   *)
(* to the loader's diagnostic, and the symbols map unchanged.              *)
C7_FailedLoad ==
    (LastIs("bind_library") /\ last.pre.lib = Null /\ dlopen(last.arg) = Null) =>
        /\ ~is_lib_bound
        /\ ~bound
        /\ error # NoError
        /\ error = DlopenError(last.arg)
        /\ _functions = last.pre.functions

C7_Witness ==
    /\ LastIs("bind_library")
    /\ last.pre.lib = Null
    /\ last.dlopened = <<last.arg>>
    /\ ~is_lib_bound
    /\ last.pre.error # error

(* C8: on a loaded Plugin, bind_function of a name the image does not      *)
(* export returns null, sets bound() false and error() to the loader's     *)
(* diagnostic; is_lib_bound() stays true and every name resolved before    *)
(* stays in the map with the same address, which execute still calls.      *)
C8_FailedResolveKeepsCache ==
    (LastIs("bind_function") /\ last.pre.lib # Null
                             /\ dlsym(last.pre.lib, last.arg) = Null) =>
        /\ last.ret = Null
        /\ ~bound
        /\ error = DlsymError(last.arg)
        /\ is_lib_bound /\ _lib = last.pre.lib
        /\ \A n \in last.pre.resolved :
              /\ is_func_bound(n)
              /\ _functions[n] = last.pre.functions[n]
              /\ execute(Self, n).called = <<last.pre.functions[n]>>

C8_Witness ==
    /\ LastIs("bind_function")
    /\ last.dlsymmed = <<last.arg>>
    /\ last.ret = Null
    /\ last.pre.bound
    /\ last.pre.resolved # {}
    /\ ~bound

(* C9: on a loaded Plugin, bind_function of an exported name returns the   *)
(* exported address and makes is_func_bound true; when the name was        *)
(* resolved before, the call returns the same address and leaves the       *)
(* symbols map, bound() and error() as they were.                          *)
C9_ResolveIdempotent ==
    (LastIs("bind_function") /\ last.pre.lib # Null
                             /\ dlsym(last.pre.lib, last.arg) # Null) =>
        /\ last.ret = dlsym(last.pre.lib, last.arg)
        /\ is_func_bound(last.arg)
        /\ _functions[last.arg] = last.ret
        /\ last.arg \in last.pre.resolved =>
              /\ last.ret = last.pre.functions[last.arg]
              /\ _functions = last.pre.functions
              /\ bound = last.pre.bound
              /\ error = last.pre.error

C9_Witness ==
    /\ LastIs("bind_function")
    /\ last.arg \in last.pre.resolved
    /\ last.ret # Null
    /\ ~last.pre.bound
    /\ last.pre.error # NoError

(* C10: bind_function on a Plugin without a handle returns null without    *)
(* calling the loader's symbol lookup, sets the error slot to the          *)
(* no-library message and leaves the handle, filepath(), the symbols map   *)
(* and bound() unchanged.                                                  *)
C10_ResolveWithoutLibrary ==
    (LastIs("bind_function") /\ last.pre.lib = Null) =>
        /\ last.ret = Null
        /\ last.dlsymmed = <<>>
        /\ error = ErrLibNotBound
        /\ _lib = Null
        /\ filepath = last.pre.filepath
        /\ _functions = last.pre.functions
        /\ bound = last.pre.bound

C10_Witness ==
    /\ LastIs("bind_function")
    /\ last.pre.lib = Null
    /\ last.pre.filepath # ""
    /\ last.pre.error # ErrLibNotBound
    /\ error = ErrLibNotBound

(* C11: in every reachable state of a Plugin, of the object and of its     *)
(* copy, bound() true implies that an OS handle is held.                   *)
C11_BoundImpliesLoaded ==
    /\ bound => is_lib_bound
    /\ copy.bound => copy.lib # Null

C11_Witness ==
    /\ bound
    /\ is_lib_bound
    /\ loadfailed
    /\ resolved # {}

(* C12: bound() is true exactly when a handle is held and no symbol lookup *)
(* made on this Plugin has failed; once bound() is false on a loaded       *)
(* Plugin no later call, a successful resolution included, makes it true.  *)
C12_BoundExactly ==
    /\ bound <=> (is_lib_bound /\ failed = {})
    /\ (last.pre.lib # Null /\ ~last.pre.bound) => ~bound

C12_Witness ==
    /\ LastIs("bind_function")
    /\ last.ret # Null
    /\ is_lib_bound
    /\ failed # {}
    /\ ~bound

(* C13: error() is empty until the first failing operation and afterwards  *)
(* is the message of the most recent failing operation (rejected load,     *)
(* failed load, resolve without library, failed resolve, execute of an     *)
(* unbound name); an operation that does not fail leaves it as it was.     *)
C13_ErrorIsLastFailure ==
    /\ error = lastfail
    /\ FailureOf(last.op, last.arg, last.names, last.pre) = NoError
          => error = last.pre.error

C13_Witness ==
    /\ LastIs("bind_function")
    /\ last.ret # Null
    /\ lastfail # NoError
    /\ error = lastfail
    /\ error = last.pre.error

(* C14: once a load succeeded the Plugin holds that one handle: the handle *)
(* and filepath() are those of the single successful open and no later     *)
(* load, resolve or execute call changes them.                             *)
C14_HandleStable ==
    /\ opened # <<>> =>
          /\ Len(opened) = 1
          /\ is_lib_bound
          /\ _lib = opened[1]
          /\ dlopen(filepath) = _lib
    /\ last.pre.lib # Null =>
          /\ _lib = last.pre.lib
          /\ filepath = last.pre.filepath

C14_Witness ==
    /\ LastIs("bind_library")
    /\ last.pre.lib # Null
    /\ last.arg \in Loadable
    /\ last.arg # filepath
    /\ failed # {}
    /\ _lib = opened[1]

(* C15 as stated: after a bind_library call failed, the Plugin is never in *)
(* the loaded state again.                                                 *)
C15_LoadFailedTerminal ==
    loadfailed => ~(is_lib_bound /\ bound)

(* C15 amended: LoadFailed is not terminal.  After a bind_library call     *)
(* failed the Plugin holds no handle, and a later bind_library call ends   *)
(* with is_lib_bound() and bound() true exactly when the loader opens the  *)
(* file given to that call.                                                *)
C15_LoadRetried ==
    /\ (loadfailed /\ opened = <<>>) => ~is_lib_bound
    /\ (loadfailed /\ LastIs("bind_library") /\ last.pre.lib = Null) =>
          ((is_lib_bound /\ bound) <=> dlopen(last.arg) # Null)

C15_Witness ==
    /\ loadfailed
    /\ LastIs("bind_library")
    /\ last.pre.lib = Null
    /\ is_lib_bound
    /\ bound

(* C16: is_func_bound(name) is true only if a bind_function(name) call     *)
(* succeeded, every entry of the symbols map holds a non-null address, and *)
(* execute and get_func never add an entry to the map.                     *)
C16_OnlyResolvedEntries ==
    /\ \A n \in Names : is_func_bound(n) => n \in resolved
    /\ \A n \in DOMAIN _functions : _functions[n] # Null
    /\ (LastIs("execute") \/ LastIs("get_func")) =>
          DOMAIN _functions = DOMAIN last.pre.functions

(* C17: no OS handle is passed to dlclose twice, counted over the object   *)
(* and the copy made of it by the implicitly generated copy operations.    *)
C17_NoHandleClosedTwice ==
    LET all == closed \o copy_closed IN
    \A i, j \in 1..Len(all) : i # j => all[i] # all[j]

(* C18: filepath() is the path argument of the most recent bind_library    *)
(* call that was not rejected as already bound, whether or not that call   *)
(* opened the library.                                                     *)
C18_FilepathIsLastAttempt ==
    filepath = lastpath

C18_Witness ==
    /\ LastIs("bind_library")
    /\ ~is_lib_bound
    /\ filepath = last.arg
    /\ last.pre.filepath # ""
    /\ last.pre.filepath # filepath
====
